---- MODULE Spec2Model ----
(***************************************************************************)
(* A model of the tour-booking REST API of src/app.js: the middleware      *)
(* pipeline of the express application (lines 15-89) and the aggregation   *)
(* handlers of the tour controller (lines 166-332).                        *)
(*                                                                         *)
(* Strings that the code takes apart (latlng, year, page, limit) are       *)
(* sequences of one-character strings, so that split(',') and the          *)
(* string-to-number coercion are computed, not assumed.  Non-integer       *)
(* numbers are kept exact: a rating 4.5 is 45 tenths, an Earth radius      *)
(* 3963.2 is 39632 tenths, an average is a pair (sum, count).              *)
(***************************************************************************)
EXTENDS Integers, Sequences, FiniteSets, TLC

VARIABLES
    tours,      \* the tour collection of the database (read-only here)
    reqs,       \* per request of a controller handler: its progress and effects
    store,      \* the rate limiter's memory store: hits per client, window age
    passLog,    \* history of the limiter's decisions (for the temporal claims)
    served      \* the request most recently taken through the app pipeline

vars == <<tours, reqs, store, passLog, served>>

----------------------------------------------------------------------------
(* Strings as character sequences *)

Digits == <<"0", "1", "2", "3", "4", "5", "6", "7", "8", "9">>

IsDigit(ch) == \E i \in 1..10 : Digits[i] = ch

DigitVal(ch) == (CHOOSE i \in 1..10 : Digits[i] = ch) - 1

\* JavaScript's missing value (undefined) and not-a-number
Undefined == [defined |-> FALSE, val |-> << >>]

Defined(s) == [defined |-> TRUE, val |-> s]

\* Numbers: an integer, or not-a-number
Num(n) == [nan |-> FALSE, n |-> n]

NaN == [nan |-> TRUE, n |-> 0]

\* s * 1 for a string of decimal digits; the empty string is 0, anything
\* else that is not a decimal numeral is NaN, and undefined * 1 is NaN
RECURSIVE DigitsToNat(_)
DigitsToNat(s) ==
    IF s = << >> THEN 0
    ELSE DigitsToNat(SubSeq(s, 1, Len(s) - 1)) * 10 + DigitVal(s[Len(s)])

ToNumber(v) ==
    IF ~v.defined THEN NaN
    ELSE IF \A i \in 1..Len(v.val) : IsDigit(v.val[i])
         THEN Num(DigitsToNat(v.val))
    ELSE NaN

\* x || dflt for a number x: 0 and NaN are falsy
OrDefault(x, dflt) == IF x.nan \/ x.n = 0 THEN Num(dflt) ELSE x

\* String.prototype.split(sep): the pieces between the separators
RECURSIVE Split(_, _)
Split(s, sep) ==
    IF \A i \in 1..Len(s) : s[i] # sep THEN <<s>>
    ELSE LET k == CHOOSE i \in 1..Len(s) :
                      s[i] = sep /\ \A j \in 1..(i - 1) : s[j] # sep
         IN  <<SubSeq(s, 1, k - 1)>> \o Split(SubSeq(s, k + 1, Len(s)), sep)

\* const [a, b] = array: a missing element is undefined
Element(parts, i) == IF i <= Len(parts) THEN Defined(parts[i]) ELSE Undefined

\* !v for a string or undefined
Falsy(v) == ~v.defined \/ v.val = << >>

----------------------------------------------------------------------------
(* Errors and responses *)

\* new AppError(message, statusCode): an operational error
AppError(message, statusCode) ==
    [message |-> message, statusCode |-> statusCode,
     status |-> IF statusCode \in 400..499 THEN "fail" ELSE "error",
     isOperational |-> TRUE]

\* a rejection of the data layer: not an AppError
DbError ==
    [message |-> "database operation failed", statusCode |-> 500,
     status |-> "error", isOperational |-> FALSE]

\* res.json() on a response whose headers were sent throws
HeadersSentError ==
    [message |-> "ERR_HTTP_HEADERS_SENT", statusCode |-> 500,
     status |-> "error", isOperational |-> FALSE]

HeadersSent(responses) == \E i \in 1..Len(responses) : responses[i].delivered

\* res.status(code).json(body) called by `by`; only the first response of a
\* request reaches the client
Respond(responses, code, status, by, data) ==
    Append(responses,
           [statusCode |-> code, status |-> status, by |-> by, data |-> data,
            delivered |-> ~HeadersSent(responses)])

\* app.use(globalErrorHandler): the Error Normalizer renders the error
GlobalErrorHandler(responses, err) ==
    Respond(responses, err.statusCode, err.status, "globalErrorHandler",
            err.message)

\* next(err): express hands the error to the global error handler at once
NextErr(q, err) ==
    [q EXCEPT !.forwarded = Append(@, err),
              !.responses = GlobalErrorHandler(@, err)]

----------------------------------------------------------------------------
(* The tour collection *)

Lower == <<"a", "c", "d", "e", "f", "i", "l", "m", "s", "t", "u", "y">>

Upper == <<"A", "C", "D", "E", "F", "I", "L", "M", "S", "T", "U", "Y">>

\* $toUpper: lower-case letters become upper-case, the rest is kept
ToUpper(s) ==
    [i \in 1..Len(s) |->
        IF \E k \in 1..Len(Lower) : Lower[k] = s[i]
        THEN Upper[CHOOSE k \in 1..Len(Lower) : Lower[k] = s[i]]
        ELSE s[i]]

\* a Date value (UTC)
Date(y, m, d, h) == [year |-> y, month |-> m, day |-> d, hour |-> h]

\* the instant of a Date as a number that grows with time (hours)
Time(d) == ((d.year * 12 + (d.month - 1)) * 31 + (d.day - 1)) * 24 + d.hour

Tour(name, difficulty, rating, quantity, price, dates) ==
    [name |-> name, difficulty |-> difficulty, ratingsAverage |-> rating,
     ratingsQuantity |-> quantity, price |-> price, startDates |-> dates]

----------------------------------------------------------------------------
(* Tour.aggregate for getTourStats (lines 186-208) *)

\* the threshold 4.5 of the $match stage, in tenths
MinRatingTenths == 45

\* $match: { ratingsAverage: { $gte: 4.5 } }
StatsMatch(t) == t.ratingsAverage >= MinRatingTenths

\* _id: { $toUpper: '$difficulty' }
StatsKeyAsSpelled(t) == t.difficulty

StatsKey(t) == ToUpper(t.difficulty)

Min(a, b) == IF a <= b THEN a ELSE b

Max(a, b) == IF a >= b THEN a ELSE b

\* the accumulators of the $group stage for the first document of a group
StatsNew(t) ==
    [_id |-> StatsKey(t), numTours |-> 1, numRatings |-> t.ratingsQuantity,
     avgRating |-> [sum |-> t.ratingsAverage, count |-> 1],
     avgPrice |-> [sum |-> t.price, count |-> 1],
     minPrice |-> t.price, maxPrice |-> t.price]

\* ... and for a further document of the group
StatsAdd(g, t) ==
    [_id |-> g._id, numTours |-> g.numTours + 1,
     numRatings |-> g.numRatings + t.ratingsQuantity,
     avgRating |-> [sum |-> g.avgRating.sum + t.ratingsAverage,
                    count |-> g.avgRating.count + 1],
     avgPrice |-> [sum |-> g.avgPrice.sum + t.price,
                   count |-> g.avgPrice.count + 1],
     minPrice |-> Min(g.minPrice, t.price),
     maxPrice |-> Max(g.maxPrice, t.price)]

\* $group: one pass over the documents, a group per distinct _id
RECURSIVE StatsGroup(_, _)
StatsGroup(docs, groups) ==
    IF docs = << >> THEN groups
    ELSE LET t == Head(docs)
             hit == {i \in 1..Len(groups) : groups[i]._id = StatsKey(t)}
         IN  IF hit = {}
             THEN StatsGroup(Tail(docs), Append(groups, StatsNew(t)))
             ELSE LET i == CHOOSE j \in hit : TRUE
                  IN  StatsGroup(Tail(docs),
                                 [groups EXCEPT ![i] = StatsAdd(@, t)])

\* a.avgPrice <= b.avgPrice, the averages being sum/count
AvgPriceLeq(a, b) ==
    a.avgPrice.sum * b.avgPrice.count <= b.avgPrice.sum * a.avgPrice.count

\* $sort: { avgPrice: 1 }
RECURSIVE SortByAvgPrice(_)
SortByAvgPrice(groups) ==
    IF groups = << >> THEN << >>
    ELSE LET rest == SortByAvgPrice(Tail(groups))
             g == Head(groups)
             k == Cardinality({i \in 1..Len(rest) : ~AvgPriceLeq(g, rest[i])})
         IN  SubSeq(rest, 1, k) \o <<g>> \o SubSeq(rest, k + 1, Len(rest))

TourStats(docs) ==
    SortByAvgPrice(StatsGroup(SelectSeq(docs, StatsMatch), << >>))

----------------------------------------------------------------------------
(* Tour.aggregate for getMonthlyPlan (lines 218-254) *)

\* $unwind: '$startDates': one row per start date of each tour
RECURSIVE UnwindFirstOnly(_)
UnwindFirstOnly(docs) ==
    IF docs = << >> THEN << >>
    ELSE LET t == Head(docs)
         IN  [j \in 1..Min(1, Len(t.startDates)) |->
                 [name |-> t.name, startDates |-> t.startDates[j]]]
             \o UnwindFirstOnly(Tail(docs))

RECURSIVE Unwind(_)
Unwind(docs) ==
    IF docs = << >> THEN << >>
    ELSE LET t == Head(docs)
         IN  [j \in 1..Len(t.startDates) |->
                 [name |-> t.name, startDates |-> t.startDates[j]]]
             \o Unwind(Tail(docs))

\* new Date(`${year}-01-01`) and new Date(`${year}-12-31`): a date-only
\* string is the first instant (00:00 UTC) of that day
YearFrom(year) == Date(year, 1, 1, 0)

YearTo(year) == Date(year, 12, 31, 0)

\* $match: { startDates: { $gte: ..., $lte: ... } }; a NaN year makes both
\* bounds invalid dates, which no start date matches
PlanMatch(row, year) ==
    /\ ~year.nan
    /\ Time(row.startDates) >= Time(YearFrom(year.n))
    /\ Time(row.startDates) <= Time(YearTo(year.n))

\* $group by { $month: '$startDates' }, then $addFields month, $project _id: 0
RECURSIVE PlanGroup(_, _)
PlanGroup(rows, groups) ==
    IF rows = << >> THEN groups
    ELSE LET row == Head(rows)
             m == row.startDates.month
             hit == {i \in 1..Len(groups) : groups[i].month = m}
         IN  IF hit = {}
             THEN PlanGroup(Tail(rows),
                            Append(groups, [month |-> m, numTourStarts |-> 1,
                                            tours |-> <<row.name>>]))
             ELSE LET i == CHOOSE j \in hit : TRUE
                  IN  PlanGroup(Tail(rows),
                          [groups EXCEPT ![i] =
                              [month |-> m,
                               numTourStarts |-> @.numTourStarts + 1,
                               tours |-> Append(@.tours, row.name)]])

\* $sort: { numTourStarts: -1 }
RECURSIVE SortByStartsDesc(_)
SortByStartsDesc(groups) ==
    IF groups = << >> THEN << >>
    ELSE LET rest == SortByStartsDesc(Tail(groups))
             g == Head(groups)
             k == Cardinality({i \in 1..Len(rest) :
                                  rest[i].numTourStarts > g.numTourStarts})
         IN  SubSeq(rest, 1, k) \o <<g>> \o SubSeq(rest, k + 1, Len(rest))

\* $limit: 12
PlanLimit == 12

Limit(s, n) == SubSeq(s, 1, Min(n, Len(s)))

MonthlyPlan(docs, year) ==
    LET rows == Unwind(docs)
        kept == SelectSeq(rows, LAMBDA row : PlanMatch(row, year))
    IN  Limit(SortByStartsDesc(PlanGroup(kept, << >>)), PlanLimit)

----------------------------------------------------------------------------
(* The controller's handlers (lines 185-332) *)

Reqs == {1, 2}

Handlers == {"getTourStats", "getMonthlyPlan", "getToursWithin", "getDistances"}

NoParams == [year |-> << >>, distance |-> << >>, latlng |-> << >>, unit |-> ""]

\* a request no handler has been invoked for yet
Idle ==
    [handler |-> "none", params |-> NoParams, pc |-> "idle", dbCalls |-> << >>,
     rejected |-> FALSE, forwarded |-> << >>, responses |-> << >>]

\* route parameters of the requests
Years == {<<"2", "0", "2", "1">>}

DistanceStrs == {<<"1">>, <<"2", "0", "0">>}

LatLngs == {<<"3", ",", "4">>, <<"3">>, <<",", "4">>, <<"3", ",">>}

Units == {"mi", "km", "xx"}

\* which exported handlers are built as catchAsync(async (req, res, next) => ...)
WrappedNotGetDistances(h) == h \in Handlers \ {"getDistances"}

WrappedInCatchAsync(h) == h \in Handlers

\* the Earth's radius in miles and in kilometres (3963.2, 6378.1), in tenths
EarthRadiusMiTenths == 39632

EarthRadiusKmTenths == 63781

\* unit === 'mi' ? distance / 3963.2 : distance / 6378.1, kept as a quotient
RadiusKmOnlyForKm(unit, distance) ==
    [dividend |-> ToNumber(Defined(distance)),
     divisorTenths |-> IF unit = "km" THEN EarthRadiusKmTenths
                       ELSE EarthRadiusMiTenths]

Radius(unit, distance) ==
    [dividend |-> ToNumber(Defined(distance)),
     divisorTenths |-> IF unit = "mi" THEN EarthRadiusMiTenths
                       ELSE EarthRadiusKmTenths]

LatLngMessage == "Please provide latitude and longitude in the format lat,lng."

\* if (!lat || !lng) { next(new AppError(..., 400)); }   -- no return follows
CheckLatLng(q, lat, lng) ==
    IF Falsy(lat) \/ Falsy(lng) THEN NextErr(q, AppError(LatLngMessage, 400))
    ELSE q

\* the operation handed to the data layer, awaited by the handler
Await(q, call) == [q EXCEPT !.dbCalls = Append(@, call), !.pc = "awaiting"]

GetTourStats(r) ==
    /\ reqs[r].pc = "idle"
    /\ reqs' = [reqs EXCEPT ![r] =
           Await([Idle EXCEPT !.handler = "getTourStats"],
                 [op |-> "aggregate", on |-> "tourStats"])]
    /\ UNCHANGED <<tours, store, passLog, served>>

GetMonthlyPlan(r) ==
    /\ reqs[r].pc = "idle"
    /\ \E y \in Years :
          LET year == ToNumber(Defined(y))
          IN  reqs' = [reqs EXCEPT ![r] =
                  Await([Idle EXCEPT !.handler = "getMonthlyPlan",
                                     !.params = [NoParams EXCEPT !.year = y]],
                        [op |-> "aggregate", on |-> "monthlyPlan",
                         year |-> year])]
    /\ UNCHANGED <<tours, store, passLog, served>>

GetToursWithin(r) ==
    /\ reqs[r].pc = "idle"
    /\ \E distance \in DistanceStrs, latlng \in LatLngs, unit \in Units :
          LET parts == Split(latlng, ",")
              lat == Element(parts, 1)
              lng == Element(parts, 2)
              radius == Radius(unit, distance)
              q == [Idle EXCEPT !.handler = "getToursWithin",
                                !.params = [NoParams EXCEPT
                                               !.distance = distance,
                                               !.latlng = latlng,
                                               !.unit = unit]]
          IN  reqs' = [reqs EXCEPT ![r] =
                  Await(CheckLatLng(q, lat, lng),
                        [op |-> "find", on |-> "geoWithin",
                         center |-> <<lng, lat>>, radius |-> radius])]
    /\ UNCHANGED <<tours, store, passLog, served>>

\* unit === 'mi' ? 0.000621371 : 0.001, in billionths
Multiplier(unit) == IF unit = "mi" THEN 621371 ELSE 1000000

GetDistances(r) ==
    /\ reqs[r].pc = "idle"
    /\ \E latlng \in LatLngs, unit \in Units :
          LET parts == Split(latlng, ",")
              lat == Element(parts, 1)
              lng == Element(parts, 2)
              q == [Idle EXCEPT !.handler = "getDistances",
                                !.params = [NoParams EXCEPT
                                               !.latlng = latlng,
                                               !.unit = unit]]
          IN  reqs' = [reqs EXCEPT ![r] =
                  Await(CheckLatLng(q, lat, lng),
                        [op |-> "aggregate", on |-> "geoNear",
                         center |-> <<ToNumber(lng), ToNumber(lat)>>,
                         multiplier |-> Multiplier(unit)])]
    /\ UNCHANGED <<tours, store, passLog, served>>

----------------------------------------------------------------------------
(* getAllTours = factory.getAll(Tour) (line 179) with the query translator's
   pagination: the factory and the translator are other files of the
   repository; the disabled block of lines 452-458 shows the arithmetic *)

PageDefault == 1

LimitDefault == 100

\* the values of the page and limit keys of the query string
QueryValues ==
    {Undefined, Defined(<<"0">>), Defined(<<"1">>), Defined(<<"2">>),
     Defined(<<"3">>)}

\* page = queryString.page * 1 || 1; limit = queryString.limit * 1 || 100;
\* skip = (page - 1) * limit
PaginateFromZero(pageStr, limitStr) ==
    LET page == OrDefault(ToNumber(pageStr), PageDefault).n
        limit == OrDefault(ToNumber(limitStr), LimitDefault).n
    IN  [skip |-> page * limit, limit |-> limit]

Paginate(pageStr, limitStr) ==
    LET page == OrDefault(ToNumber(pageStr), PageDefault).n
        limit == OrDefault(ToNumber(limitStr), LimitDefault).n
    IN  [skip |-> (page - 1) * limit, limit |-> limit]

\* query.skip(n): the documents after the first n
RECURSIVE Skip(_, _)
Skip(docs, n) ==
    IF n = 0 \/ docs = << >> THEN docs ELSE Skip(Tail(docs), n - 1)

\* handlers the CRUD factory builds (it wraps them in catchAsync itself)
FactoryBuilt(h) == h = "getAllTours"

GetAllTours(r) ==
    /\ reqs[r].pc = "idle"
    /\ \E pageStr \in QueryValues, limitStr \in QueryValues :
          LET q == [Idle EXCEPT !.handler = "getAllTours",
                                !.params = [page |-> pageStr,
                                            limit |-> limitStr]]
              pg == Paginate(pageStr, limitStr)
          IN  reqs' = [reqs EXCEPT ![r] =
                  Await(q, [op |-> "find", on |-> "all",
                            skip |-> pg.skip, limit |-> pg.limit])]
    /\ UNCHANGED <<tours, store, passLog, served>>

----------------------------------------------------------------------------
(* Resumption of a suspended handler *)

\* what the awaited operation can resolve to.  The geometry of the geo
\* queries is the data layer's: they resolve to some part of the collection
\* (here: none of it, or all of it).
Names(docs) == [i \in 1..Len(docs) |-> docs[i].name]

DbResults(q) ==
    LET call == q.dbCalls[Len(q.dbCalls)]
    IN  CASE call.on = "tourStats" -> {TourStats(tours)}
          [] call.on = "monthlyPlan" -> {MonthlyPlan(tours, call.year)}
          [] call.on = "all" ->
                 {Names(Limit(Skip(tours, call.skip), call.limit))}
          [] OTHER -> {<< >>, Names(tours)}

\* res.status(200).json({ status: 'success', ... }); when the headers are
\* already sent, json() throws inside the async function
Success(q, data) ==
    LET q2 == [q EXCEPT !.responses = Respond(@, 200, "success", "handler", data),
                        !.pc = "done"]
    IN  IF HeadersSent(q.responses)
        THEN IF WrappedInCatchAsync(q.handler) \/ FactoryBuilt(q.handler)
             THEN NextErr(q2, HeadersSentError)
             ELSE q2
        ELSE q2

\* fn(req, res, next).catch(next): a rejection of a wrapped handler is
\* forwarded; unwrapped, the rejection is unhandled and nothing more happens
Failure(q, err) ==
    LET q2 == [q EXCEPT !.rejected = TRUE, !.pc = "done"]
    IN  IF WrappedInCatchAsync(q.handler) \/ FactoryBuilt(q.handler)
        THEN NextErr(q2, err)
        ELSE q2

\* the awaited operation resolves and the handler runs to its end
DbResolve(r) ==
    /\ reqs[r].pc = "awaiting"
    /\ \E data \in DbResults(reqs[r]) :
          reqs' = [reqs EXCEPT ![r] = Success(@, data)]
    /\ UNCHANGED <<tours, store, passLog, served>>

\* the awaited operation rejects
DbReject(r) ==
    /\ reqs[r].pc = "awaiting"
    /\ reqs' = [reqs EXCEPT ![r] = Failure(@, DbError)]
    /\ UNCHANGED <<tours, store, passLog, served>>

----------------------------------------------------------------------------
(* The rate limiter (lines 27-33): rateLimit({ max, windowMs }) with its
   default memory store: one counter per client IP, all counters reset
   together every windowMs *)

max == 100

windowMs == 60 * 60 * 1000

\* the step of the model's clock: half a window
TickMs == 30 * 60 * 1000

Clients == {"a", "b"}

\* Bounds on the traffic: client "a" asks up to MaxOver times more than max
\* in a window, the other client up to MaxLight times
MaxOver == 1

MaxLight == 2

Quota(c) == IF c = "a" THEN max + MaxOver ELSE MaxLight

StoreInit == [hits |-> [c \in Clients |-> 0], age |-> 0]

\* the key of a request in the store: its client IP
KeyShared(ip) == "a"

KeyGenerator(ip) == ip

\* a request passes while the client's count, this request included, is
\* within max
WithinMaxCountedAfter(current) == current - 1 <= max

WithinMax(current) == current <= max

\* the limiter on one request of client ip: count it, then pass or refuse it
limiter(st, ip) ==
    LET key == KeyGenerator(ip)
        current == st.hits[key] + 1
    IN  [store |-> [st EXCEPT !.hits[key] = current],
         pass |-> WithinMax(current)]

\* the store's timer: resetAll() every windowMs
Elapse(st) ==
    IF st.age + TickMs >= windowMs
    THEN [hits |-> [c \in Clients |-> 0], age |-> 0]
    ELSE [st EXCEPT !.age = @ + TickMs]

\* History per client: the requests it made in the store's current window
\* (asked), and the requests the limiter passed in the current and in the
\* previous half hour (cur, prev)
LogInit == [c \in Clients |-> [asked |-> 0, cur |-> 0, prev |-> 0]]

\* a request of client c arrives at app.use('/api', limiter)
LimiterRequest(c) ==
    /\ passLog[c].asked < Quota(c)
    /\ LET out == limiter(store, c)
       IN  /\ store' = out.store
           /\ passLog' = [passLog EXCEPT
                  ![c] = [asked |-> @.asked + 1,
                          cur |-> IF out.pass THEN @.cur + 1 ELSE @.cur,
                          prev |-> @.prev]]
    /\ UNCHANGED <<tours, reqs, served>>

\* half an hour passes
Tick ==
    /\ store' = Elapse(store)
    /\ passLog' = [c \in Clients |->
           [asked |-> IF Elapse(store).age = 0 THEN 0 ELSE passLog[c].asked,
            cur |-> 0, prev |-> passLog[c].cur]]
    /\ UNCHANGED <<tours, reqs, served>>

----------------------------------------------------------------------------
(* The application's pipeline (lines 20-89), one request at a time: the
   stages before the routers run to completion for a request *)

Methods == {"GET", "POST", "DELETE"}

\* request URLs, as their path segments
Urls ==
    {<<"api", "v1", "tours">>, <<"api", "v1", "tours", "tour-stats">>,
     <<"api", "v1", "tours", "x", "y", "z">>, <<"api", "v1", "users">>,
     <<"api", "v1", "reviews">>, <<"api", "v1", "nonexistent">>,
     <<"overview.html">>}

\* app.use(path, ...): the mount path is a prefix of the URL's segments
Under(url, mount) ==
    Len(url) >= Len(mount) /\ SubSeq(url, 1, Len(mount)) = mount

\* Whether a router has a route for the method and the rest of the path.
\* The routers are other files of the repository: the tour router has
\* '/' (GET, POST), one-segment routes such as '/tour-stats' and '/:id'
\* (GET, and PATCH/DELETE on '/:id'); the user and review routers have '/'.
RouterHas(router, method, rest) ==
    CASE router = "tourRouter" ->
             \/ rest = << >> /\ method \in {"GET", "POST"}
             \/ Len(rest) = 1 /\ method \in {"GET", "PATCH", "DELETE"}
      [] OTHER -> rest = << >> /\ method \in {"GET", "POST"}

\* lines 77-79: the routers in mounting order
Mounts ==
    <<[router |-> "tourRouter", path |-> <<"api", "v1", "tours">>],
      [router |-> "userRouter", path |-> <<"api", "v1", "users">>],
      [router |-> "reviewRouter", path |-> <<"api", "v1", "reviews">>]>>

Matching(method, url) ==
    {i \in 1..Len(Mounts) :
        /\ Under(url, Mounts[i].path)
        /\ RouterHas(Mounts[i].router, method,
                     SubSeq(url, Len(Mounts[i].path) + 1, Len(url)))}

\* the request as it enters the pipeline
Arrived(ip, method, url) ==
    [ip |-> ip, method |-> method, originalUrl |-> url, stages |-> << >>,
     forwarded |-> << >>, responses |-> << >>]

NoRequest == Arrived("", "", << >>)

Stage(q, name) == [q EXCEPT !.stages = Append(@, name)]

TooManyMessage == "Too many requests from this IP, please try again in an hour!"

\* the body parser's failure (malformed JSON, or a body over the 10kb limit)
BodyError ==
    [message |-> <<"request body rejected">>, statusCode |-> 400,
     status |-> "fail", isOperational |-> FALSE]

\* `Can't find ${req.originalUrl} on this server!`
CantFind(url) == <<"Can't find ", url, " on this server!">>

\* an error passed to next(): express skips to the error-handling middleware
ToErrorHandler(q, err) == Stage(NextErr(q, err), "globalErrorHandler")

\* app.all('*', ...) (lines 81-87)
CatchAllResponds(q) ==
    Stage([q EXCEPT !.responses =
              Respond(@, 404, "fail", "catchAll", CantFind(q.originalUrl))],
          "catchAll")

CatchAll(q) ==
    ToErrorHandler(Stage(q, "catchAll"), AppError(CantFind(q.originalUrl), 404))

\* lines 77-79, then the catch-all
Routers(q) ==
    LET hit == Matching(q.method, q.originalUrl)
    IN  IF hit # {}
        THEN Stage(q, Mounts[CHOOSE i \in hit : \A j \in hit : i <= j].router)
        ELSE CatchAll(q)

\* express.static (line 59): answers a GET for a file of the public folder
Static(q, fileExists) ==
    IF q.method = "GET" /\ fileExists
    THEN [Stage(q, "static") EXCEPT !.responses =
             Respond(@, 200, "file", "static", q.originalUrl)]
    ELSE Routers(Stage(Stage(Stage(q, "static"), "hello"), "requestTime"))

\* express.json, mongoSanitize, xss, hpp (lines 36-56)
BodyParser(q, bodyOk) ==
    IF ~bodyOk THEN ToErrorHandler(Stage(q, "json"), BodyError)
    ELSE Stage(Stage(Stage(Stage(q, "json"), "mongoSanitize"), "xss"), "hpp")

\* a request enters the application
AppRequest(ip) ==
    /\ store.hits[ip] < Quota(ip)
    /\ \E method \in Methods, url \in Urls, bodyOk \in BOOLEAN,
          fileExists \in BOOLEAN :
          \* a body the parser rejects ends the request before the static stage
          /\ (~bodyOk => ~fileExists)
          /\ LET q0 == Stage(Arrived(ip, method, url), "helmet")
                 limited == Under(url, <<"api">>)
                 out == IF limited THEN limiter(store, ip)
                        ELSE [store |-> store, pass |-> TRUE]
                 q1 == IF limited THEN Stage(q0, "limiter") ELSE q0
             IN  /\ store' = out.store
                 /\ served' =
                       IF ~out.pass
                       THEN [q1 EXCEPT !.responses =
                                Respond(@, 429, "limited", "limiter",
                                        TooManyMessage)]
                       ELSE LET q2 == BodyParser(q1, bodyOk)
                            IN  IF q2.forwarded # << >> THEN q2
                                ELSE Static(q2, fileExists)
    /\ UNCHANGED <<tours, reqs, passLog>>

----------------------------------------------------------------------------
(* Collections and specifications *)

easy == <<"e", "a", "s", "y">>

Easy == <<"E", "a", "s", "y">>

medium == <<"m", "e", "d", "i", "u", "m">>

\* a small collection for the specifications that are not about its content
SampleTours ==
    <<Tour("T1", easy, 47, 10, 300, <<Date(2021, 6, 15, 9)>>),
      Tour("T2", medium, 44, 10, 100, << >>)>>

\* bounds of the collections
MaxTours == 3

MaxStartDates == 2

MaxDocs == 5

SeqsUpTo(S, n) == UNION {[1..k -> S] : k \in 0..n}

\* collections for the statistics: every mix of difficulty spellings,
\* ratings around the threshold, and prices
StatsShapes ==
    [difficulty : {easy, Easy, medium}, rating : {44, 45}, price : {100, 300}]

StatsCollections ==
    {[i \in 1..Len(c) |->
         Tour(i, c[i].difficulty, c[i].rating, 10, c[i].price, << >>)] :
     c \in SeqsUpTo(StatsShapes, MaxTours)}

\* start dates around the edges of 2021
PlanDates ==
    {Date(2020, 12, 31, 23), Date(2021, 1, 1, 0), Date(2021, 6, 15, 9),
     Date(2021, 12, 31, 9), Date(2022, 1, 1, 0)}

PlanCollections ==
    {<<Tour("A", easy, 47, 10, 300, da), Tour("B", easy, 47, 10, 300, db)>> :
     da \in SeqsUpTo(PlanDates, MaxStartDates),
     db \in SeqsUpTo(PlanDates, MaxStartDates)}

\* collections of n documents, in the order the query sorts them
PageCollections ==
    {[i \in 1..n |-> Tour(i, easy, 47, 10, 300, << >>)] :
     n \in (0..MaxDocs) \cup {LimitDefault + 1}}

InitWith(collections) ==
    /\ tours \in collections
    /\ reqs = [r \in Reqs |-> Idle]
    /\ store = StoreInit
    /\ passLog = LogInit
    /\ served = NoRequest

\* concurrent requests to the aggregation handlers
Init == InitWith({SampleTours})

Next ==
    \E r \in Reqs :
        \/ GetTourStats(r)
        \/ GetMonthlyPlan(r)
        \/ GetToursWithin(r)
        \/ GetDistances(r)
        \/ DbResolve(r)
        \/ DbReject(r)

Spec == Init /\ [][Next]_vars

\* one statistics request over every collection
InitStats == InitWith(StatsCollections)

NextStats == GetTourStats(1) \/ DbResolve(1) \/ DbReject(1)

SpecStats == InitStats /\ [][NextStats]_vars

\* one monthly-plan request over every collection
InitPlan == InitWith(PlanCollections)

NextPlan == GetMonthlyPlan(1) \/ DbResolve(1) \/ DbReject(1)

SpecPlan == InitPlan /\ [][NextPlan]_vars

\* one paginated listing over collections of every size
InitPage == InitWith(PageCollections)

NextPage == GetAllTours(1) \/ DbResolve(1) \/ DbReject(1)

SpecPage == InitPage /\ [][NextPage]_vars

\* the rate limiter under the traffic of two clients, with time
NextLimiter == (\E c \in Clients : LimiterRequest(c)) \/ Tick

SpecLimiter == Init /\ [][NextLimiter]_vars

\* requests through the application's pipeline
NextRoute == AppRequest("a")

SpecRoute == Init /\ [][NextRoute]_vars

----------------------------------------------------------------------------
(* Properties *)

\* what a request's responses and errors say
Has200(q) == \E i \in 1..Len(q.responses) : q.responses[i].statusCode = 200

Successes(q) ==
    {i \in 1..Len(q.responses) :
        q.responses[i].by = "handler" /\ q.responses[i].statusCode = 200}

\* the latlng parameter lacks a latitude or a longitude
LacksLatOrLng(q) ==
    LET s == q.params.latlng
        commas == {i \in 1..Len(s) : s[i] = ","}
    IN  \/ commas = {}
        \/ LET k == CHOOSE i \in commas : \A j \in commas : i <= j
           IN  k = 1 \/ k = Len(s) \/ s[k + 1] = ","

Is400(err) ==
    err.statusCode = 400 /\ err.isOperational /\ err.message = LatLngMessage

\* C1: a getToursWithin request whose latlng lacks a latitude or a longitude
\* forwards a 400 operational error and halts: the geo query is never
\* executed and no 200 response is constructed.
C1_MissingLatLngHalts ==
    \A r \in Reqs :
        LET q == reqs[r]
        IN  (q.handler = "getToursWithin" /\ LacksLatOrLng(q)) =>
                /\ Len(q.forwarded) >= 1 /\ Is400(q.forwarded[1])
                /\ q.dbCalls = << >>
                /\ ~Has200(q)

\* C2: when the awaited data-layer operation of an aggregation handler
\* rejects, the rejection is forwarded to the global error handler, the
\* request does not end silently (the error handler answers or has answered)
\* and no success response is produced after it; whatever the other requests
\* are doing.
C2_RejectionForwarded ==
    \A r \in Reqs :
        LET q == reqs[r]
        IN  (q.handler \in Handlers /\ q.rejected) =>
                /\ q.pc = "done"
                /\ q.forwarded # << >>
                /\ q.forwarded[Len(q.forwarded)] = DbError
                /\ q.responses # << >>
                /\ q.responses[Len(q.responses)].by = "globalErrorHandler"
                /\ Successes(q) = {}

\* a handler's operation has rejected while the other request is suspended
\* at its own await
C2_Witness ==
    /\ reqs[1].handler = "getDistances" /\ reqs[1].rejected
    /\ reqs[2].handler = "getTourStats" /\ reqs[2].pc = "awaiting"

\* C8 (as claimed): the radius is distance / 3963.2 for 'mi' and
\* distance / 6378.1 for 'km', and 6378.1 is the divisor only for 'km'.
C8_KmDivisorOnlyForKm ==
    \A r \in Reqs :
        LET q == reqs[r]
        IN  (q.handler = "getToursWithin" /\ q.dbCalls # << >>) =>
                LET radius == q.dbCalls[1].radius
                IN  /\ q.params.unit = "mi" => radius.divisorTenths = 39632
                    /\ q.params.unit = "km" => radius.divisorTenths = 63781
                    /\ radius.divisorTenths = 63781 => q.params.unit = "km"

\* the distance parameter as the number it spells
DistanceOf(q) ==
    IF q.params.distance = <<"1">> THEN 1
    ELSE IF q.params.distance = <<"2", "0", "0">> THEN 200 ELSE -1

\* C8 (amended): the radius is distance / 3963.2 when the unit is 'mi' and
\* distance / 6378.1 for every other unit, 'km' included.
C8_KmDivisorUnlessMi ==
    \A r \in Reqs :
        LET q == reqs[r]
        IN  (q.handler = "getToursWithin" /\ q.dbCalls # << >>) =>
                LET radius == q.dbCalls[1].radius
                IN  /\ radius.dividend = Num(DistanceOf(q))
                    /\ q.params.unit = "mi" => radius.divisorTenths = 39632
                    /\ q.params.unit # "mi" => radius.divisorTenths = 63781

C8_Witness ==
    /\ reqs[1].handler = "getToursWithin" /\ reqs[1].dbCalls # << >>
    /\ reqs[1].params.unit = "km" /\ DistanceOf(reqs[1]) = 200
    /\ reqs[2].handler = "getToursWithin" /\ reqs[2].dbCalls # << >>
    /\ reqs[2].params.unit = "xx"

\* C10: every request of the four handlers ends with exactly one outcome,
\* one success response or one forwarded failure; a getDistances request
\* whose latlng lacks a part forwards a single 400 operational error, does
\* not run the aggregation and sends no 200.
C10_ExactlyOneOutcome ==
    \A r \in Reqs :
        LET q == reqs[r]
        IN  /\ (q.handler \in Handlers /\ q.pc = "done") =>
                   Cardinality(Successes(q)) + Len(q.forwarded) = 1
            /\ (q.handler = "getDistances" /\ LacksLatOrLng(q)) =>
                   /\ Len(q.forwarded) = 1 /\ Is400(q.forwarded[1])
                   /\ q.dbCalls = << >>
                   /\ ~Has200(q)

\* the documents a successful response of request 1 carries, if any
Answer == reqs[1].responses[1].data

Answered(h) ==
    /\ reqs[1].handler = h /\ reqs[1].pc = "done" /\ ~reqs[1].rejected
    /\ reqs[1].responses[1].statusCode = 200

\* the difficulty tier of a tour, whatever the case of its letters
TierOf(t) ==
    IF t.difficulty \in {easy, Easy} THEN <<"E", "A", "S", "Y">>
    ELSE <<"M", "E", "D", "I", "U", "M">>

Rated == {i \in 1..Len(tours) : tours[i].ratingsAverage >= 45}

\* C5: getTourStats leaves out every tour rated under 4.5, returns exactly
\* one group per upper-cased difficulty among the others (spellings that
\* differ in case share a group), numTours counts the group's tours,
\* minPrice <= avgPrice <= maxPrice, and the groups ascend in avgPrice.
C5_TourStats ==
    Answered("getTourStats") =>
        LET stats == Answer
        IN  /\ {stats[k]._id : k \in 1..Len(stats)} = {TierOf(tours[i]) : i \in Rated}
            /\ \A k, l \in 1..Len(stats) : stats[k]._id = stats[l]._id => k = l
            /\ \A k \in 1..Len(stats) :
                  LET g == stats[k]
                      members == {i \in Rated : TierOf(tours[i]) = g._id}
                  IN  /\ g.numTours = Cardinality(members)
                      /\ g.avgPrice.count = g.numTours
                      /\ g.minPrice * g.avgPrice.count <= g.avgPrice.sum
                      /\ g.avgPrice.sum <= g.maxPrice * g.avgPrice.count
                      /\ \A i \in members :
                            g.minPrice <= tours[i].price /\ tours[i].price <= g.maxPrice
            /\ \A k, l \in 1..Len(stats) :
                  k < l => stats[k].avgPrice.sum * stats[l].avgPrice.count
                              <= stats[l].avgPrice.sum * stats[k].avgPrice.count

\* two spellings of one tier share a group whose average lies strictly
\* between its minimum and maximum, and a tour under 4.5 is left out
C5_Witness ==
    /\ Answered("getTourStats")
    /\ Len(tours) = 3 /\ Len(Answer) = 1
    /\ \E i, j \in Rated : tours[i].difficulty = easy /\ tours[j].difficulty = Easy
    /\ \E i \in 1..Len(tours) : i \notin Rated
    /\ Answer[1].numTours = 2
    /\ Answer[1].minPrice * 2 < Answer[1].avgPrice.sum
    /\ Answer[1].avgPrice.sum < Answer[1].maxPrice * 2

\* the year a monthly-plan request asks for
AskedYear == IF reqs[1].params.year = <<"2", "0", "2", "1">> THEN 2021 ELSE 0

\* the start dates (tour i, position j) that the plan's $match stage keeps
AllDates ==
    UNION {{<<i, j>> : j \in 1..Len(tours[i].startDates)} : i \in 1..Len(tours)}

DateAt(ij) == tours[ij[1]].startDates[ij[2]]

KeptDates ==
    {ij \in AllDates : PlanMatch([startDates |-> DateAt(ij)], Num(AskedYear))}

Occurrences(names, n) == Cardinality({k \in 1..Len(names) : names[k] = n})

\* C6: getMonthlyPlan returns at most 12 groups, with month numbers in
\* 1..12 and none twice, ordered by numTourStarts descending; numTourStarts
\* counts the start dates the year filter keeps, not tours: a tour with two
\* such dates in a month adds 2 and is named twice in the group's tours.
C6_MonthlyPlan ==
    Answered("getMonthlyPlan") =>
        LET plan == Answer
        IN  /\ Len(plan) <= 12
            /\ \A k \in 1..Len(plan) : plan[k].month \in 1..12
            /\ \A k, l \in 1..Len(plan) : plan[k].month = plan[l].month => k = l
            /\ \A k, l \in 1..Len(plan) :
                  k < l => plan[k].numTourStarts >= plan[l].numTourStarts
            /\ {plan[k].month : k \in 1..Len(plan)}
                  = {DateAt(ij).month : ij \in KeptDates}
            /\ \A k \in 1..Len(plan) :
                  LET g == plan[k]
                      inMonth == {ij \in KeptDates : DateAt(ij).month = g.month}
                  IN  /\ g.numTourStarts = Cardinality(inMonth)
                      /\ Len(g.tours) = g.numTourStarts
                      /\ \A i \in 1..Len(tours) :
                            Occurrences(g.tours, tours[i].name)
                              = Cardinality({ij \in inMonth : ij[1] = i})

\* a tour with two start dates in one month counts twice, and the months
\* are ordered by a strictly larger count
C6_Witness ==
    /\ Answered("getMonthlyPlan")
    /\ Len(Answer) = 2
    /\ Answer[1].numTourStarts = 3 /\ Answer[2].numTourStarts = 1
    /\ Occurrences(Answer[1].tours, "A") = 2

RECURSIVE SumStarts(_)
SumStarts(plan) ==
    IF plan = << >> THEN 0 ELSE Head(plan).numTourStarts + SumStarts(Tail(plan))

\* C7: a start date is counted in the plan for year Y exactly when it falls
\* in calendar year Y, any time of day on December 31 included.
C7_CalendarYear ==
    Answered("getMonthlyPlan") =>
        LET inYear == {ij \in AllDates : DateAt(ij).year = AskedYear}
        IN  /\ SumStarts(Answer) = Cardinality(inYear)
            /\ \A ij \in inYear :
                  \E k \in 1..Len(Answer) :
                      /\ Answer[k].month = DateAt(ij).month
                      /\ Occurrences(Answer[k].tours, tours[ij[1]].name) >= 1

\* the number a page or limit value spells, or the default
Spelled(v, dflt) ==
    IF ~v.defined \/ v.val = <<"0">> THEN dflt
    ELSE CHOOSE n \in 1..3 : v.val = <<Digits[n + 1]>>

\* C4: pagination is 1-indexed with skip = (page-1)*limit and defaults
\* page=1, limit=100: the result is the documents at positions skip+1 ..
\* min(skip+limit, N) of the sorted sequence, and the empty sequence, with
\* no error, when skip >= N.
C4_Pagination ==
    Answered("getAllTours") =>
        LET page == Spelled(reqs[1].params.page, 1)
            limit == Spelled(reqs[1].params.limit, 100)
            skip == (page - 1) * limit
            N == Len(tours)
            last == IF skip + limit <= N THEN skip + limit ELSE N
        IN  /\ reqs[1].forwarded = << >>
            /\ Len(reqs[1].responses) = 1
            /\ IF skip >= N THEN Answer = << >>
               ELSE Answer = [k \in 1..(last - skip) |-> tours[skip + k].name]

\* page=3, limit=2 on 5 documents yields document 5 only
C4_Witness ==
    /\ Answered("getAllTours")
    /\ Len(tours) = 5
    /\ reqs[1].params.page = Defined(<<"3">>)
    /\ reqs[1].params.limit = Defined(<<"2">>)
    /\ Answer = <<5>>

\* the requests of client c that the limiter passed in the store's current
\* window, and in the last hour (the previous and the current half hour)
PassedInWindow(c) ==
    IF store.age = 0 THEN passLog[c].cur ELSE passLog[c].prev + passLog[c].cur

PassedInLastHour(c) == passLog[c].prev + passLog[c].cur

\* C9 (as claimed): in every interval of one hour, aligned to a window or
\* not, at most 100 requests of a client pass the limiter.
C9_RollingHourCap == \A c \in Clients : PassedInLastHour(c) <= 100

\* C9 (amended): in each window of the limiter (one hour, all counters reset
\* together at its end) the requests of a client that pass are its first
\* 100 of that window, whatever the other client asked; an interval of one
\* hour across a reset passes at most 200.
C9_FixedWindowCap ==
    \A c \in Clients :
        /\ PassedInWindow(c) = (IF passLog[c].asked <= 100 THEN passLog[c].asked
                                ELSE 100)
        /\ PassedInLastHour(c) <= 200

\* a client is refused its 101st request of a window in which the other
\* client asked too
C9_Witness ==
    /\ passLog["a"].asked = 101 /\ PassedInWindow("a") = 100
    /\ passLog["b"].asked >= 1 /\ PassedInWindow("b") = passLog["b"].asked

\* what the catch-all does for the request served
Unmatched == served # NoRequest /\ Matching(served.method, served.originalUrl) = {}

CatchAllOutcome ==
    /\ Len(served.forwarded) = 1
    /\ served.forwarded[1].statusCode = 404
    /\ served.forwarded[1].isOperational
    /\ served.forwarded[1].message
           = <<"Can't find ", served.originalUrl, " on this server!">>
    /\ \E i \in 1..Len(served.stages) : served.stages[i] = "catchAll"
    /\ served.stages[Len(served.stages)] = "globalErrorHandler"
    /\ \A i \in 1..Len(served.responses) :
          served.responses[i].by = "globalErrorHandler"

\* C3 (as claimed): every request that no router matches reaches the
\* catch-all, which forwards an operational 404 "Can't find <url> on this
\* server!" to the global error handler, the last stage, and sends nothing
\* itself.
C3_UnmatchedReachCatchAll == Unmatched => CatchAllOutcome

\* the request went through the middleware mounted before the routers
PassedMiddleware ==
    /\ \A i \in 1..Len(served.responses) :
          served.responses[i].by \notin {"limiter", "static"}
    /\ \A i \in 1..Len(served.forwarded) : served.forwarded[i] # BodyError

\* C3 (amended): every request that the middleware before the routers lets
\* through (not refused by the rate limiter or the body parser, not answered
\* by the static file server) and that no router matches reaches the
\* catch-all, with the outcome claimed.
C3_PassedUnmatchedReachCatchAll ==
    (Unmatched /\ PassedMiddleware) => CatchAllOutcome

C3_Witness ==
    /\ served.method = "GET"
    /\ served.originalUrl = <<"api", "v1", "nonexistent">>
    /\ PassedMiddleware
    /\ CatchAllOutcome
    /\ served.responses[1].statusCode = 404 /\ served.responses[1].delivered

====
